---- MODULE Spec2Model ----
(***************************************************************************)
(* Model of http/jsonapi/runtime/standart_params.go: the translation of    *)
(* JSON:API query parameters (page[number], page[size], sort, filter[..])  *)
(* into query options, and the application of those options to a query.    *)
(*                                                                         *)
(* Strings are sequences of one-character strings, so that Split, Atoi,    *)
(* HasPrefix and TrimPrefix are computed as the Go code computes them.     *)
(***************************************************************************)
EXTENDS Integers, Sequences, FiniteSets, TLC

VARIABLES entry, query, pc, opt, err, invoked, res1, res2

vars == <<entry, query, pc, opt, err, invoked, res1, res2>>

----------------------------------------------------------------------------
(* Bounds of the requests the model enumerates. *)

MaxNumberLen == 2
MaxSizeLen == 3
MaxSortLen == 4
MaxFilterParams == 2
MaxValChars == 4
CMaxPageLen == 1
CMaxSortLen == 1

PageChars == {"0", "1", "2", "-"}
SortChars == {"a", "b", "-", ","}
ValChars == {"1", ","}
CPageChars == {"0", "1", "-"}
CSortChars == {"a", "-", ","}

----------------------------------------------------------------------------
(* Configuration: envDefault values of the config struct. *)

MaxPageSize == 100
MinPageSize == 1

----------------------------------------------------------------------------
(* strings / strconv helpers *)

HasPrefix(s, p) == Len(s) >= Len(p) /\ SubSeq(s, 1, Len(p)) = p

HasSuffix(s, p) == Len(s) >= Len(p) /\ SubSeq(s, Len(s) - Len(p) + 1, Len(s)) = p

TrimPrefix(s, p) == IF HasPrefix(s, p) THEN SubSeq(s, Len(p) + 1, Len(s)) ELSE s

TrimSuffix(s, p) == IF HasSuffix(s, p) THEN SubSeq(s, 1, Len(s) - Len(p)) ELSE s

RECURSIVE Split(_, _)
Split(s, sep) ==
    IF \E i \in 1..Len(s) : s[i] = sep
    THEN LET i == CHOOSE k \in 1..Len(s) :
                      s[k] = sep /\ \A j \in 1..(k - 1) : s[j] # sep
         IN <<SubSeq(s, 1, i - 1)>> \o Split(SubSeq(s, i + 1, Len(s)), sep)
    ELSE <<s>>

RECURSIVE Join(_, _)
Join(list, sep) ==
    IF list = <<>> THEN <<>>
    ELSE IF Len(list) = 1 THEN list[1]
    ELSE list[1] \o <<sep>> \o Join(Tail(list), sep)

DigitSeq == <<"0", "1", "2", "3", "4", "5", "6", "7", "8", "9">>

Digits == {DigitSeq[i] : i \in 1..10}

DigitVal(c) == (CHOOSE i \in 1..10 : DigitSeq[i] = c) - 1

RECURSIVE ParseDigits(_, _)
ParseDigits(s, acc) ==
    IF s = <<>> THEN acc ELSE ParseDigits(Tail(s), acc * 10 + DigitVal(Head(s)))

(* strconv.Atoi: optional sign, then one or more decimal digits. *)
Atoi(s) ==
    LET signed == Len(s) > 0 /\ s[1] \in {"+", "-"}
        body == IF signed THEN Tail(s) ELSE s
        ok == Len(body) > 0 /\ \A i \in 1..Len(body) : body[i] \in Digits
        n == IF ok THEN ParseDigits(body, 0) ELSE 0
    IN [ok |-> ok, val |-> IF signed /\ s[1] = "-" THEN 0 - n ELSE n]

RECURSIVE Itoa(_)
Itoa(n) ==
    IF n < 0 THEN <<"-">> \o Itoa(0 - n)
    ELSE IF n < 10 THEN <<DigitSeq[n + 1]>>
    ELSE Itoa(n \div 10) \o <<DigitSeq[(n % 10) + 1]>>

----------------------------------------------------------------------------
(* The request: r.URL.Query(), a map from parameter name to its values. *)

SortName == <<"s", "o", "r", "t">>
PageNumberName == <<"p", "a", "g", "e", "[", "n", "u", "m", "b", "e", "r", "]">>
PageSizeName == <<"p", "a", "g", "e", "[", "s", "i", "z", "e", "]">>
FilterPrefix == <<"f", "i", "l", "t", "e", "r", "[">>
FilterSuffix == <<"]">>

(* url.Values.Get: the first value of the parameter, "" when absent. *)
Get(q, name) == IF name \in DOMAIN q /\ Len(q[name]) > 0 THEN q[name][1] ELSE <<>>

----------------------------------------------------------------------------
(* Errors and query options (closures, represented by what they capture). *)

NoErr == [kind |-> "nil", args |-> <<>>]

NilOption == [kind |-> "nil"]

NopOption == [kind |-> "nop"]

(* A fresh query object: nothing set, nothing appended. *)
FreshQuery == [offset |-> <<>>, limit |-> <<>>, order |-> <<>>, where |-> <<>>]

----------------------------------------------------------------------------
(* Collaborators: the mapping table of a MapMapper and a ValueSanitizer.   *)

FieldA == <<"a">>
FieldB == <<"b">>
FieldC == <<"c">>
FieldX == <<"x">>
ColA == <<"A">>
ColB == <<"B">>

(* fields a and c are two public names of the same column; x is unmapped *)
mapping == (FieldA :> ColA) @@ (FieldB :> ColB) @@ (FieldC :> ColA)

Map(value) ==
    IF value \in DOMAIN mapping
    THEN [val |-> mapping[value], isValid |-> TRUE]
    ELSE [val |-> <<>>, isValid |-> FALSE]

(* A sanitizer for integer columns: the typed value is the parsed integer. *)
SanitizeValue(fieldName, value) ==
    LET n == Atoi(value) IN [val |-> n.val, ok |-> n.ok]

----------------------------------------------------------------------------
(* PaginationFromRequest *)

(* mutant: the lower bound is not tested *)
SizeOutOfBoundsNoMin(pageSize) == pageSize > MaxPageSize

SizeOutOfBounds(pageSize) == (pageSize < MinPageSize) \/ (pageSize > MaxPageSize)

(* mutant: the offset of a one-based page number *)
PaginationOffsetOneBased(pageNr, pageSize) ==
    IF pageNr = 0 THEN 0 ELSE pageSize * (pageNr - 1)

PaginationOffset(pageNr, pageSize) ==
    IF pageNr = 0 THEN 0 ELSE (pageSize * pageNr) - 1

PaginationFromRequest(q) ==
    LET pageStr == Get(q, PageNumberName)
        sizeStr == Get(q, PageSizeName)
        pageNr == Atoi(pageStr)
        pageSize == Atoi(sizeStr)
    IN IF pageStr = <<>> \/ sizeStr = <<>>
       THEN [opt |-> NopOption, err |-> NoErr]
       ELSE IF ~pageNr.ok
       THEN [opt |-> NilOption, err |-> [kind |-> "syntax", args |-> <<pageStr>>]]
       ELSE IF ~pageSize.ok
       THEN [opt |-> NilOption, err |-> [kind |-> "syntax", args |-> <<sizeStr>>]]
       ELSE IF SizeOutOfBounds(pageSize.val)
       THEN [opt |-> NilOption,
             err |-> [kind |-> "bounds",
                      args |-> <<Itoa(MinPageSize), Itoa(MaxPageSize)>>]]
       ELSE [opt |-> [kind |-> "pagination",
                      pageNr |-> pageNr.val, pageSize |-> pageSize.val],
             err |-> NoErr]

----------------------------------------------------------------------------
(* SortingFromRequest *)

Asc == <<" ", "A", "S", "C">>
Desc == <<" ", "D", "E", "S", "C">>

(* mutant: the leading '-' is stripped but the order stays ascending *)
SortOrderAlwaysAsc(val) == Asc

SortOrder(val) == IF HasPrefix(val, <<"-">>) THEN Desc ELSE Asc

RECURSIVE SortLoop(_, _, _)
SortLoop(sorting, resultedOrders, errSortingWithReason) ==
    IF sorting = <<>>
    THEN [resultedOrders |-> resultedOrders,
          errSortingWithReason |-> errSortingWithReason]
    ELSE LET val == Head(sorting)
             order == SortOrder(val)
             name == TrimPrefix(val, <<"-">>)
             m == Map(name)
         IN IF val = <<>>
            THEN SortLoop(Tail(sorting), resultedOrders, errSortingWithReason)
            ELSE IF ~m.isValid
            THEN SortLoop(Tail(sorting), resultedOrders,
                          Append(errSortingWithReason, name))
            ELSE SortLoop(Tail(sorting), Append(resultedOrders, m.val \o order),
                          errSortingWithReason)

SortingFromRequest(q) ==
    LET sort == Get(q, SortName)
        r == SortLoop(Split(sort, ","), <<>>, <<>>)
        sortingFilterOption ==
            [kind |-> "sorting", resultedOrders |-> r.resultedOrders]
    IN IF sort = <<>>
       THEN [opt |-> NopOption, err |-> NoErr]
       ELSE IF Len(r.errSortingWithReason) # 0
       THEN [opt |-> sortingFilterOption,
             err |-> [kind |-> "sorting",
                      args |-> <<Join(r.errSortingWithReason, ",")>>]]
       ELSE [opt |-> sortingFilterOption, err |-> NoErr]

----------------------------------------------------------------------------
(* FilterFromRequest *)

(* The orders in which a Go map with key set S may be iterated. *)
RECURSIVE Perms(_)
Perms(S) ==
    IF S = {} THEN {<<>>}
    ELSE UNION {{<<x>> \o p : p \in Perms(S \ {x})} : x \in S}

EmptyMap == [k \in {} |-> <<>>]

MapPut(m, k, v) == [x \in (DOMAIN m) \cup {k} |-> IF x = k THEN v ELSE m[x]]

getFilterKey(queryName) ==
    LET field == TrimSuffix(TrimPrefix(queryName, FilterPrefix), FilterSuffix)
        m == Map(field)
    IN IF ~m.isValid
       THEN [key |-> field, isValid |-> FALSE]
       ELSE [key |-> m.val, isValid |-> TRUE]

RECURSIVE SanitizeTokens(_, _, _)
SanitizeTokens(fieldName, separatedValues, filterValues) ==
    IF separatedValues = <<>>
    THEN [values |-> filterValues, isValid |-> TRUE]
    ELSE LET sanitized == SanitizeValue(fieldName, Head(separatedValues))
         IN IF ~sanitized.ok
            THEN [values |-> <<>>, isValid |-> FALSE]
            ELSE SanitizeTokens(fieldName, Tail(separatedValues),
                                Append(filterValues, sanitized.val))

RECURSIVE getFilterValuesLoop(_, _, _)
getFilterValuesLoop(fieldName, queryValues, filterValues) ==
    IF queryValues = <<>>
    THEN [values |-> filterValues, isValid |-> TRUE]
    ELSE LET r == SanitizeTokens(fieldName, Split(Head(queryValues), ","),
                                 filterValues)
         IN IF ~r.isValid
            THEN [values |-> <<>>, isValid |-> FALSE]
            ELSE getFilterValuesLoop(fieldName, Tail(queryValues), r.values)

getFilterValues(fieldName, queryValues) ==
    getFilterValuesLoop(fieldName, queryValues, <<>>)

IsFilterName(queryName) ==
    HasPrefix(queryName, FilterPrefix) /\ HasSuffix(queryName, FilterSuffix)

(* The loop over r.URL.Query(), taken in the iteration order ord. *)
RECURSIVE FilterLoop(_, _, _, _)
FilterLoop(q, ord, filter, invalidFilter) ==
    IF ord = <<>>
    THEN [filter |-> filter, invalidFilter |-> invalidFilter]
    ELSE LET queryName == Head(ord)
             k == getFilterKey(queryName)
             v == getFilterValues(k.key, q[queryName])
         IN IF ~IsFilterName(queryName)
            THEN FilterLoop(q, Tail(ord), filter, invalidFilter)
            ELSE IF ~k.isValid
            THEN FilterLoop(q, Tail(ord), filter, Append(invalidFilter, k.key))
            ELSE IF ~v.isValid
            THEN FilterLoop(q, Tail(ord), filter, Append(invalidFilter, k.key))
            ELSE FilterLoop(q, Tail(ord), MapPut(filter, k.key, v.values),
                            invalidFilter)

FilterFromRequest(q, ord) ==
    LET r == FilterLoop(q, ord, EmptyMap, <<>>)
        filterQueryOption == [kind |-> "filter", filter |-> r.filter]
    IN IF Len(r.invalidFilter) # 0
       THEN [opt |-> filterQueryOption,
             err |-> [kind |-> "filter",
                      args |-> <<Join(r.invalidFilter, ",")>>]]
       ELSE [opt |-> filterQueryOption, err |-> NoErr]

----------------------------------------------------------------------------
(* FilterPagingSortingFromRequest *)

(* mutant: aborts only when the sub-parser returned no option *)
AbortsOnNilOption(option, e) == e # NoErr /\ option = NilOption

(* the test after each sub-parser: "err != nil && option != nil" *)
AbortsOn(option, e) == e # NoErr /\ option # NilOption

FilterPagingSortingFromRequest(q, ord) ==
    LET s == SortingFromRequest(q)
        p == PaginationFromRequest(q)
        f == FilterFromRequest(q, ord)
    IN IF AbortsOn(s.opt, s.err)
       THEN [opt |-> NilOption, err |-> s.err,
             invoked |-> <<"SortingFromRequest">>]
       ELSE IF AbortsOn(p.opt, p.err)
       THEN [opt |-> NilOption, err |-> p.err,
             invoked |-> <<"SortingFromRequest", "PaginationFromRequest">>]
       ELSE IF AbortsOn(f.opt, f.err)
       THEN [opt |-> NilOption, err |-> f.err,
             invoked |-> <<"SortingFromRequest", "PaginationFromRequest",
                           "FilterFromRequest">>]
       ELSE [opt |-> [kind |-> "combined", sortingOption |-> s.opt,
                      filterOption |-> f.opt, paginationOption |-> p.opt],
             err |-> NoErr,
             invoked |-> <<"SortingFromRequest", "PaginationFromRequest",
                           "FilterFromRequest">>]

----------------------------------------------------------------------------
(* Applying a query option to a query object.  The result records the     *)
(* query as the call leaves it, the captured options the call ran, and     *)
(* whether the call panicked (a call of a nil func value).                 *)

RECURSIVE ApplyOrders(_, _)
ApplyOrders(resultedOrders, q) ==
    IF resultedOrders = <<>> THEN q
    ELSE ApplyOrders(Tail(resultedOrders),
                     [q EXCEPT !.order = Append(@, Head(resultedOrders))])

EqCond == <<" ", "=", " ", "?">>
InCond == <<" ", "I", "N", " ", "(", "?", ")">>

(* mutant: the loop ends after the first equality predicate *)
RECURSIVE ApplyFilterLoopStopsAfterEq(_, _, _)
ApplyFilterLoopStopsAfterEq(filter, ord, q) ==
    IF ord = <<>> THEN q
    ELSE LET name == Head(ord)
             filterValues == filter[name]
         IN IF Len(filterValues) = 0
            THEN ApplyFilterLoopStopsAfterEq(filter, Tail(ord), q)
            ELSE IF Len(filterValues) = 1
            THEN [q EXCEPT !.where = Append(@, [cond |-> name \o EqCond,
                                                params |-> <<filterValues[1]>>])]
            ELSE ApplyFilterLoopStopsAfterEq(filter, Tail(ord),
                     [q EXCEPT !.where = Append(@, [cond |-> name \o InCond,
                                                    params |-> filterValues])])

(* the loop over the filter map, taken in the iteration order ord *)
RECURSIVE ApplyFilterLoop(_, _, _)
ApplyFilterLoop(filter, ord, q) ==
    IF ord = <<>> THEN q
    ELSE LET name == Head(ord)
             filterValues == filter[name]
         IN IF Len(filterValues) = 0
            THEN ApplyFilterLoop(filter, Tail(ord), q)
            ELSE IF Len(filterValues) = 1
            THEN ApplyFilterLoop(filter, Tail(ord),
                     [q EXCEPT !.where = Append(@, [cond |-> name \o EqCond,
                                                    params |-> <<filterValues[1]>>])])
            ELSE ApplyFilterLoop(filter, Tail(ord),
                     [q EXCEPT !.where = Append(@, [cond |-> name \o InCond,
                                                    params |-> filterValues])])

ApplyPagination(o, q) ==
    [q EXCEPT !.offset = <<PaginationOffset(o.pageNr, o.pageSize)>>,
              !.limit = <<o.pageSize>>]

(* the query objects a single (not combined) option may leave *)
ApplySimple(o, q) ==
    CASE o.kind = "nil" -> {[q |-> q, panic |-> TRUE]}
      [] o.kind = "nop" -> {[q |-> q, panic |-> FALSE]}
      [] o.kind = "pagination" -> {[q |-> ApplyPagination(o, q), panic |-> FALSE]}
      [] o.kind = "sorting" ->
            {[q |-> ApplyOrders(o.resultedOrders, q), panic |-> FALSE]}
      [] o.kind = "filter" ->
            {[q |-> ApplyFilterLoop(o.filter, ord, q), panic |-> FALSE] :
                ord \in Perms(DOMAIN o.filter)}

ApplyCombined(o, q) ==
    UNION {UNION {
        IF s.panic THEN {[q |-> s.q, ran |-> <<>>, panic |-> TRUE]}
        ELSE IF f.panic
        THEN {[q |-> f.q, ran |-> <<"sortingOption">>, panic |-> TRUE]}
        ELSE {[q |-> p.q,
               ran |-> IF p.panic THEN <<"sortingOption", "filterOption">>
                       ELSE <<"sortingOption", "filterOption", "paginationOption">>,
               panic |-> p.panic] : p \in ApplySimple(o.paginationOption, f.q)}
        : f \in ApplySimple(o.filterOption, s.q)}
        : s \in ApplySimple(o.sortingOption, q)}

Apply(o, q) ==
    IF o.kind = "combined" THEN ApplyCombined(o, q)
    ELSE {[q |-> r.q, ran |-> IF r.panic THEN <<>> ELSE <<o.kind>>,
           panic |-> r.panic] : r \in ApplySimple(o, q)}

NotApplied == [q |-> FreshQuery, ran |-> <<>>, panic |-> FALSE]

----------------------------------------------------------------------------
(* Requests *)

Strings(chars, n) == UNION {[1..k -> chars] : k \in 0..n}

(* a parameter is absent or carries one value *)
ValueLists(S) == {<<>>} \cup {<<v>> : v \in S}

FilterName(field) == FilterPrefix \o field \o FilterSuffix

FilterNames == {FilterName(FieldA), FilterName(FieldB), FilterName(FieldC),
                FilterName(FieldX)}

RECURSIVE TotalLen(_, _)
TotalLen(f, S) ==
    IF S = {} THEN 0
    ELSE LET x == CHOOSE y \in S : TRUE
         IN Len(f[x][1]) + TotalLen(f, S \ {x})

FilterParams(maxParams, maxChars) ==
    UNION {{f \in [S -> {<<v>> : v \in Strings(ValChars, maxChars)}] :
                TotalLen(f, S) <= maxChars} :
           S \in {T \in SUBSET FilterNames : Cardinality(T) <= maxParams}}

Named(name, values) == IF values = <<>> THEN EmptyMap ELSE name :> values

MkQuery(sort, number, size, filters) ==
    Named(SortName, sort) @@ Named(PageNumberName, number)
        @@ Named(PageSizeName, size) @@ filters

PaginationRequests ==
    {MkQuery(<<>>, n, z, EmptyMap) :
        n \in ValueLists(Strings(PageChars, MaxNumberLen)),
        z \in ValueLists(Strings(PageChars, MaxSizeLen))}

SortingRequests ==
    {MkQuery(s, <<>>, <<>>, EmptyMap) :
        s \in ValueLists(Strings(SortChars, MaxSortLen))}

FilterRequests ==
    {MkQuery(<<>>, <<>>, <<>>, f) : f \in FilterParams(MaxFilterParams, MaxValChars)}

(* filter parameters of the composer's requests: none, one valid, an      *)
(* unmapped field, an unsanitizable value, two valid ones                  *)
ComposerFilters ==
    {EmptyMap,
     FilterName(FieldA) :> <<<<"1">>>>,
     FilterName(FieldX) :> <<<<"1">>>>,
     FilterName(FieldB) :> <<<<",">>>>,
     (FilterName(FieldA) :> <<<<"1">>>>) @@ (FilterName(FieldB) :> <<<<"1", ",", "1">>>>)}

ComposerRequests ==
    {MkQuery(s, n, z, f) :
        s \in ValueLists(Strings(CSortChars, CMaxSortLen)),
        n \in ValueLists(Strings(CPageChars, CMaxPageLen)),
        z \in ValueLists(Strings(CPageChars, CMaxPageLen)),
        f \in ComposerFilters}

----------------------------------------------------------------------------
(* The state machine: a caller invokes one exported function on a request, *)
(* then applies the returned option to a fresh query object, twice.        *)

InitCommon ==
    /\ pc = "start"
    /\ opt = NilOption
    /\ err = NoErr
    /\ invoked = <<>>
    /\ res1 = NotApplied
    /\ res2 = NotApplied

InitPagination ==
    /\ entry = "PaginationFromRequest"
    /\ query \in PaginationRequests
    /\ InitCommon

InitSorting ==
    /\ entry = "SortingFromRequest"
    /\ query \in SortingRequests
    /\ InitCommon

InitFilter ==
    /\ entry = "FilterFromRequest"
    /\ query \in FilterRequests
    /\ InitCommon

InitComposer ==
    /\ entry = "FilterPagingSortingFromRequest"
    /\ query \in ComposerRequests
    /\ InitCommon

Returns(r, calls) ==
    /\ opt' = r.opt
    /\ err' = r.err
    /\ invoked' = calls
    /\ pc' = "returned"
    /\ UNCHANGED <<entry, query, res1, res2>>

CallPaginationFromRequest ==
    /\ pc = "start"
    /\ entry = "PaginationFromRequest"
    /\ Returns(PaginationFromRequest(query), <<"PaginationFromRequest">>)

CallSortingFromRequest ==
    /\ pc = "start"
    /\ entry = "SortingFromRequest"
    /\ Returns(SortingFromRequest(query), <<"SortingFromRequest">>)

CallFilterFromRequest ==
    /\ pc = "start"
    /\ entry = "FilterFromRequest"
    /\ \E ord \in Perms(DOMAIN query) :
          Returns(FilterFromRequest(query, ord), <<"FilterFromRequest">>)

CallFilterPagingSortingFromRequest ==
    /\ pc = "start"
    /\ entry = "FilterPagingSortingFromRequest"
    /\ \E ord \in Perms(DOMAIN query) :
          LET r == FilterPagingSortingFromRequest(query, ord)
          IN Returns(r, r.invoked)

ApplyFirst ==
    /\ pc = "returned"
    /\ \E r \in Apply(opt, FreshQuery) : res1' = r
    /\ pc' = "applied"
    /\ UNCHANGED <<entry, query, opt, err, invoked, res2>>

ApplySecond ==
    /\ pc = "applied"
    /\ \E r \in Apply(opt, FreshQuery) : res2' = r
    /\ pc' = "done"
    /\ UNCHANGED <<entry, query, opt, err, invoked, res1>>

NextPagination == CallPaginationFromRequest \/ ApplyFirst \/ ApplySecond

NextSorting == CallSortingFromRequest \/ ApplyFirst \/ ApplySecond

NextFilter == CallFilterFromRequest \/ ApplyFirst \/ ApplySecond

NextComposer == CallFilterPagingSortingFromRequest \/ ApplyFirst \/ ApplySecond

Init == InitPagination \/ InitSorting \/ InitFilter \/ InitComposer

Next ==
    \/ CallPaginationFromRequest
    \/ CallSortingFromRequest
    \/ CallFilterFromRequest
    \/ CallFilterPagingSortingFromRequest
    \/ ApplyFirst
    \/ ApplySecond

Spec == Init /\ [][Next]_vars

SpecPagination == InitPagination /\ [][NextPagination]_vars

SpecSorting == InitSorting /\ [][NextSorting]_vars

SpecFilter == InitFilter /\ [][NextFilter]_vars

SpecComposer == InitComposer /\ [][NextComposer]_vars

----------------------------------------------------------------------------
(* Properties.  What a request asks for is described here directly from    *)
(* its parameters, independently of the parsers above.                     *)

Range(seq) == {seq[i] : i \in 1..Len(seq)}

Applied == pc \in {"applied", "done"}

SortTokens == Split(Get(query, SortName), ",")

SortTokenName(t) == IF Len(t) > 0 /\ t[1] = "-" THEN Tail(t) ELSE t

IsMappedSortToken(t) == t # <<>> /\ SortTokenName(t) \in DOMAIN mapping

IsUnmappedSortToken(t) == t # <<>> /\ SortTokenName(t) \notin DOMAIN mapping

HasUnmappedSortToken == \E t \in Range(SortTokens) : IsUnmappedSortToken(t)

ExpectedOrders ==
    LET valid == SelectSeq(SortTokens, IsMappedSortToken)
    IN [i \in 1..Len(valid) |->
          mapping[SortTokenName(valid[i])]
              \o (IF valid[i][1] = "-" THEN Desc ELSE Asc)]

ExpectedInvalidSortNames ==
    LET invalid == SelectSeq(SortTokens, IsUnmappedSortToken)
    IN [i \in 1..Len(invalid) |-> SortTokenName(invalid[i])]

PageNumber == Atoi(Get(query, PageNumberName))

PageSize == Atoi(Get(query, PageSizeName))

PagePresent == Get(query, PageNumberName) # <<>> /\ Get(query, PageSizeName) # <<>>

PageIntegers == PageNumber.ok /\ PageSize.ok

PageSizeInBounds == MinPageSize <= PageSize.val /\ PageSize.val <= MaxPageSize

PaginationFails == PagePresent /\ (~PageIntegers \/ ~PageSizeInBounds)

FieldOf(name) == SubSeq(name, Len(FilterPrefix) + 1, Len(name) - 1)

RECURSIVE AllTokens(_)
AllTokens(values) ==
    IF values = <<>> THEN <<>>
    ELSE Split(Head(values), ",") \o AllTokens(Tail(values))

IsMappedFilter(name) == IsFilterName(name) /\ FieldOf(name) \in DOMAIN mapping

AllTokensSanitize(name) ==
    \A t \in Range(AllTokens(query[name])) :
        SanitizeValue(mapping[FieldOf(name)], t).ok

IsValidFilter(name) == IsMappedFilter(name) /\ AllTokensSanitize(name)

IsFailingFilter(name) == IsMappedFilter(name) /\ ~AllTokensSanitize(name)

ExpectedPredicate(name) ==
    LET col == mapping[FieldOf(name)]
        toks == AllTokens(query[name])
        vals == [i \in 1..Len(toks) |-> SanitizeValue(col, toks[i]).val]
    IN [cond |-> col \o (IF Len(vals) = 1 THEN EqCond ELSE InCond),
        params |-> vals]

Count(seq, x) == Cardinality({i \in 1..Len(seq) : seq[i] = x})

SameUpToOrder(s, t) ==
    /\ Len(s) = Len(t)
    /\ \A x \in Range(s) \cup Range(t) : Count(s, x) = Count(t, x)

(* C1: in the composer, when sorting reports no error and pagination      *)
(* reports an error, the composer returns that pagination error with no    *)
(* modifier and FilterFromRequest is never invoked.                        *)
C1_PaginationErrorAborts ==
    (entry = "FilterPagingSortingFromRequest" /\ pc # "start"
        /\ ~HasUnmappedSortToken /\ PaginationFails)
    => /\ err.kind \in {"syntax", "bounds"}
       /\ opt = NilOption
       /\ "FilterFromRequest" \notin Range(invoked)

(* C2: in the composer, when the sort parameter has a non-empty unmapped   *)
(* token, only the sorting error is returned, with no modifier, and        *)
(* neither PaginationFromRequest nor FilterFromRequest is invoked.         *)
C2_SortErrorAborts ==
    (entry = "FilterPagingSortingFromRequest" /\ pc # "start"
        /\ HasUnmappedSortToken)
    => /\ err = [kind |-> "sorting",
                 args |-> <<Join(ExpectedInvalidSortNames, ",")>>]
       /\ opt = NilOption
       /\ invoked = <<"SortingFromRequest">>

C2_Witness ==
    /\ entry = "FilterPagingSortingFromRequest"
    /\ pc = "returned"
    /\ HasUnmappedSortToken
    /\ PagePresent /\ PageIntegers /\ PageSizeInBounds
    /\ \E name \in DOMAIN query : IsValidFilter(name)
    /\ err.kind = "sorting"

(* C3: whenever the composer returns without error, applying the returned *)
(* modifier does not fail and runs the sorting, the filtering and the      *)
(* pagination modifier, once each, in that order.                          *)
C3_ComposedApplyOrder ==
    (entry = "FilterPagingSortingFromRequest" /\ Applied /\ err = NoErr)
    => /\ ~res1.panic
       /\ res1.ran = <<"sortingOption", "filterOption", "paginationOption">>

(* C4: with integer page[number] >= 0 and page[size] within the bounds,   *)
(* PaginationFromRequest returns no error and the modifier sets limit =    *)
(* size and offset = 0 for number 0, size*number - 1 for number > 0.       *)
C4_PaginationOffsetLimit ==
    (entry = "PaginationFromRequest" /\ pc # "start"
        /\ PagePresent /\ PageIntegers /\ PageSizeInBounds /\ PageNumber.val >= 0)
    => /\ err = NoErr
       /\ opt # NilOption
       /\ Applied =>
             /\ ~res1.panic
             /\ res1.q.limit = <<PageSize.val>>
             /\ PageNumber.val = 0 => res1.q.offset = <<0>>
             /\ PageNumber.val > 0 =>
                    res1.q.offset = <<PageSize.val * PageNumber.val - 1>>
             /\ res1.q.order = <<>> /\ res1.q.where = <<>>

C4_Witness ==
    /\ entry = "PaginationFromRequest"
    /\ Applied
    /\ Get(query, PageNumberName) = <<"2">>
    /\ Get(query, PageSizeName) = <<"1", "0">>
    /\ res1.q.offset = <<19>>
    /\ res1.q.limit = <<10>>

(* C5: with integer page[number] and page[size], PaginationFromRequest    *)
(* returns the bounds error exactly when size < MinPageSize or size >      *)
(* MaxPageSize, whatever number is, and then returns no modifier, so no    *)
(* query object is modified.                                               *)
C5_BoundsError ==
    (entry = "PaginationFromRequest" /\ pc # "start" /\ PagePresent /\ PageIntegers)
    => /\ (err.kind = "bounds") <=>
              (PageSize.val < MinPageSize \/ PageSize.val > MaxPageSize)
       /\ err.kind = "bounds" =>
             /\ err.args = <<Itoa(MinPageSize), Itoa(MaxPageSize)>>
             /\ opt = NilOption
             /\ res1.q = FreshQuery /\ res2.q = FreshQuery

C5_Witness ==
    /\ entry = "PaginationFromRequest"
    /\ pc = "done"
    /\ PageIntegers /\ PageSize.val > MaxPageSize /\ PageNumber.val < 0
    /\ err.kind = "bounds"
    /\ res1.panic /\ res1.q = FreshQuery

(* C6: the modifier of SortingFromRequest appends one order clause per    *)
(* non-empty mapped token, in token order, DESC for a leading '-' and ASC  *)
(* otherwise, nothing for empty or unmapped tokens, whether or not other   *)
(* tokens are invalid; an error naming the invalid names is returned       *)
(* exactly when some non-empty token is unmapped.                          *)
C6_SortingClauses ==
    (entry = "SortingFromRequest" /\ pc # "start")
    => /\ opt # NilOption
       /\ (err # NoErr) <=> HasUnmappedSortToken
       /\ err # NoErr =>
             /\ err.kind = "sorting"
             /\ Split(err.args[1], ",") = ExpectedInvalidSortNames
       /\ Applied =>
             /\ ~res1.panic
             /\ res1.q = [FreshQuery EXCEPT !.order = ExpectedOrders]

C6_Witness ==
    /\ entry = "SortingFromRequest"
    /\ Applied
    /\ Get(query, SortName) = <<"-", "a", ",", "-">>
    /\ err.kind = "sorting"
    /\ res1.q.order = <<ColA \o Desc>>

(* C7: every filter parameter whose field is mapped and whose tokens all  *)
(* sanitize contributes its predicate (equality for one value, IN over     *)
(* all values in order otherwise) when the modifier of FilterFromRequest   *)
(* is applied, also when other parameters are invalid or map to the same   *)
(* column.                                                                 *)
C7_EveryValidFilterApplied ==
    (entry = "FilterFromRequest" /\ Applied)
    => \A name \in DOMAIN query :
          IsValidFilter(name) => ExpectedPredicate(name) \in Range(res1.q.where)

(* C8 as stated: applying the same modifier to two fresh query objects    *)
(* yields identical query objects, the sequence of predicates included.    *)
C8_IdenticalResults == pc = "done" => res1 = res2

(* C8 as amended: the two results are identical up to the order of the    *)
(* appended filter predicates.                                             *)
C8_IdenticalUpToPredicateOrder ==
    pc = "done"
    => /\ res1.panic = res2.panic
       /\ res1.ran = res2.ran
       /\ res1.q.offset = res2.q.offset
       /\ res1.q.limit = res2.q.limit
       /\ res1.q.order = res2.q.order
       /\ SameUpToOrder(res1.q.where, res2.q.where)

C8_Witness ==
    /\ pc = "done"
    /\ Len(res1.q.where) = 2
    /\ res1.q.where # res2.q.where
    /\ SameUpToOrder(res1.q.where, res2.q.where)

(* C9: if any token of a filter parameter fails the sanitizer, no         *)
(* predicate built from that parameter is applied and the returned error   *)
(* names the parameter's client-facing field name.                         *)
C9_FailingFilterNamedByField ==
    (entry = "FilterFromRequest" /\ pc # "start")
    => \A name \in DOMAIN query :
          IsFailingFilter(name) =>
             /\ err.kind = "filter"
             /\ FieldOf(name) \in Range(Split(err.args[1], ","))
             /\ \A w \in Range(res1.q.where) :
                   HasPrefix(w.cond, mapping[FieldOf(name)] \o <<" ">>) =>
                      \E other \in DOMAIN query :
                          IsValidFilter(other) /\ w = ExpectedPredicate(other)

(* C10: a pagination modifier returned without error leaves the query     *)
(* untouched or sets an offset >= 0 and a limit > 0, for every integer     *)
(* page[number], negative ones included.                                   *)
C10_OffsetNonNegative ==
    (entry = "PaginationFromRequest" /\ Applied /\ err = NoErr)
    => \/ res1.q = FreshQuery
       \/ /\ Len(res1.q.offset) = 1 /\ res1.q.offset[1] >= 0
          /\ Len(res1.q.limit) = 1 /\ res1.q.limit[1] > 0

====
